---- MODULE Spec2Model ----
(***************************************************************************)
(* bram-audio-parser: decoding of a RIFF/WAVE byte buffer into AudioData   *)
(* (src/src/wav_binary.rs, src/src/audio_data.rs) and its reduction to a   *)
(* StereoAudioPresentation (src/src/audio_presentation.rs), as called by   *)
(* load_presentation (src/src/lib.rs).                                     *)
(*                                                                         *)
(* Every function of the crate is pure; the model applies each of them to  *)
(* inputs drawn from bounded sets.  Byte offsets are 0-based as in the     *)
(* source; usize is taken as 64 bits wide, so pos + 8 + chunk_size never   *)
(* wraps (chunk_size < 2^32 and pos < data.len()).  A Rust panic (slice    *)
(* index out of range, division by zero, arithmetic overflow) is the       *)
(* outcome "Panic".                                                        *)
(***************************************************************************)
EXTENDS Integers, Sequences, FiniteSets, TLC

(***************************************************************************)
(* data   WavBinary.data, the bytes of the file (wav_binary.rs:6-8)        *)
(* audio  the AudioData handed to the reducer, or produced by try_from     *)
(*        (audio_data.rs:6-10)                                             *)
(* rate   RatedAudioData.sample_rate, the target rate                      *)
(*        (audio_presentation.rs:10-13)                                    *)
(* op     the function that has been called, "none" before the call        *)
(* res    what the call returned                                           *)
(* walk   the locals of a chunk walk that is followed iteration by         *)
(*        iteration: pc, pos (audio_data.rs:35, 53), the number of         *)
(*        headers read and the offsets they were read at                   *)
(***************************************************************************)
VARIABLES data, audio, rate, op, res, walk

vars == <<data, audio, rate, op, res, walk>>

(***************************************************************************)
(* Bounds of the explored inputs.                                          *)
(***************************************************************************)
MaxCut == 16
MaxSamples == 2
MaxRate == 2
MaxLen == 4
MaxSrcRate == 4
MaxChannels == 3

(***************************************************************************)
(* Program constants.                                                      *)
(***************************************************************************)
ChunkStart == 12
HeaderLen == 8
I16Offset == 32768
Divisor == 65535

(***************************************************************************)
(* Bytes and little-endian conversions.                                    *)
(***************************************************************************)
At(bytes, i) == bytes[i + 1]

Slice(bytes, from, to) == [k \in 1..(to - from) |-> bytes[from + k]]

u16_from_le_bytes(b0, b1) == b0 + 256 * b1

u32_from_le_bytes(b0, b1, b2, b3) == b0 + 256 * b1 + 65536 * b2 + 16777216 * b3

i16_from_be_bytes(b0, b1) ==
    LET u == b1 + 256 * b0
    IN  IF u >= 32768 THEN u - 65536 ELSE u

i16_from_le_bytes(b0, b1) ==
    LET u == b0 + 256 * b1
    IN  IF u >= 32768 THEN u - 65536 ELSE u

u16_to_le_bytes(n) == <<n % 256, (n \div 256) % 256>>

u32_to_le_bytes(n) ==
    <<n % 256, (n \div 256) % 256, (n \div 65536) % 256, (n \div 16777216) % 256>>

i16_to_le_bytes(v) == u16_to_le_bytes(IF v < 0 THEN v + 65536 ELSE v)

RIFF == <<82, 73, 70, 70>>
WAVE == <<87, 65, 86, 69>>
FMT  == <<102, 109, 116, 32>>
DATA == <<100, 97, 116, 97>>
LIST == <<76, 73, 83, 84>>

(***************************************************************************)
(* Results.  One record shape for every function: kind is "None" (nothing  *)
(* computed yet, or Option::None), "Some", "Ok", "Err" or "Panic".         *)
(***************************************************************************)
NoResult ==
    [kind |-> "None", msg |-> "", pos |-> 0, channels |-> 0, sample_rate |-> 0,
     samples |-> <<>>, left |-> <<>>, right |-> <<>>]

NoWalk == [pc |-> "idle", pos |-> 0, reads |-> 0, visited |-> <<>>]

Err(m) == [NoResult EXCEPT !.kind = "Err", !.msg = m]

Panic(m) == [NoResult EXCEPT !.kind = "Panic", !.msg = m]

SomePos(p) == [NoResult EXCEPT !.kind = "Some", !.pos = p]

OkFormat(c, r) == [NoResult EXCEPT !.kind = "Ok", !.channels = c, !.sample_rate = r]

OkSamples(s) == [NoResult EXCEPT !.kind = "Ok", !.samples = s]

OkAudioData(s, c, r) ==
    [NoResult EXCEPT !.kind = "Ok", !.samples = s, !.channels = c, !.sample_rate = r]

OkPresentation(l, r) == [NoResult EXCEPT !.kind = "Ok", !.left = l, !.right = r]

(***************************************************************************)
(* WavBinary::check                                                        *)
(***************************************************************************)
check(bytes) ==
    /\ Len(bytes) >= 12
    /\ Slice(bytes, 0, 4) = RIFF
    /\ Slice(bytes, 8, 12) = WAVE

(***************************************************************************)
(* AudioData::find_data_chunk: the while loop, entered at pos.             *)
(***************************************************************************)
RECURSIVE find_data_chunk_loop(_, _)
find_data_chunk_loop(bytes, pos) ==
    IF pos + HeaderLen <= Len(bytes)
    THEN LET chunk_id == Slice(bytes, pos, pos + 4)
             chunk_size == u32_from_le_bytes(At(bytes, pos + 4), At(bytes, pos + 5),
                                             At(bytes, pos + 6), At(bytes, pos + 7))
         IN  IF chunk_id = DATA
             THEN SomePos(pos)
             ELSE find_data_chunk_loop(bytes, pos + HeaderLen + chunk_size)
    ELSE NoResult

find_data_chunk(bytes) == find_data_chunk_loop(bytes, ChunkStart)

(***************************************************************************)
(* AudioData::read_format_info: the while loop, entered at pos.  The six   *)
(* bytes pos+10 .. pos+15 are indexed without a length test: an index at   *)
(* or past data.len() panics.                                              *)
(***************************************************************************)
RECURSIVE read_format_info_loop_inclusive(_, _)
read_format_info_loop_inclusive(bytes, pos) ==
    IF pos + HeaderLen <= Len(bytes)
    THEN LET chunk_id == Slice(bytes, pos, pos + 4)
         IN  IF chunk_id = FMT
             THEN IF pos + 15 >= Len(bytes)
                  THEN Panic("index out of bounds")
                  ELSE OkFormat(
                         u16_from_le_bytes(At(bytes, pos + 10), At(bytes, pos + 11)),
                         u32_from_le_bytes(At(bytes, pos + 12), At(bytes, pos + 13),
                                           At(bytes, pos + 14), At(bytes, pos + 15)))
             ELSE LET chunk_size ==
                        u32_from_le_bytes(At(bytes, pos + 4), At(bytes, pos + 5),
                                          At(bytes, pos + 6), At(bytes, pos + 7))
                  IN  read_format_info_loop_inclusive(bytes, pos + HeaderLen + chunk_size)
    ELSE Err("no chunk format found")

RECURSIVE read_format_info_loop(_, _)
read_format_info_loop(bytes, pos) ==
    IF pos + HeaderLen < Len(bytes)
    THEN LET chunk_id == Slice(bytes, pos, pos + 4)
         IN  IF chunk_id = FMT
             THEN IF pos + 15 >= Len(bytes)
                  THEN Panic("index out of bounds")
                  ELSE OkFormat(
                         u16_from_le_bytes(At(bytes, pos + 10), At(bytes, pos + 11)),
                         u32_from_le_bytes(At(bytes, pos + 12), At(bytes, pos + 13),
                                           At(bytes, pos + 14), At(bytes, pos + 15)))
             ELSE LET chunk_size ==
                        u32_from_le_bytes(At(bytes, pos + 4), At(bytes, pos + 5),
                                          At(bytes, pos + 6), At(bytes, pos + 7))
                  IN  read_format_info_loop(bytes, pos + HeaderLen + chunk_size)
    ELSE Err("no chunk format found")

read_format_info(bytes) == read_format_info_loop(bytes, ChunkStart)

(***************************************************************************)
(* AudioData::bytes_to_i16_samples                                         *)
(***************************************************************************)
bytes_to_i16_samples(bytes) ==
    IF Len(bytes) % 2 # 0
    THEN Err("invalid binary data")
    ELSE LET num_samples == Len(bytes) \div 2
         IN  OkSamples([i \in 1..num_samples |->
                 i16_from_le_bytes(At(bytes, (i - 1) * 2), At(bytes, (i - 1) * 2 + 1))])

(***************************************************************************)
(* AudioData::extract_samples                                              *)
(***************************************************************************)
extract_samples(bytes) ==
    LET found == find_data_chunk(bytes)
    IN  IF found.kind # "Some"
        THEN Err("no data chunk found")
        ELSE LET data_pos == found.pos
             IN  IF data_pos + 8 > Len(bytes)
                 THEN Err("incomplete data chunk")
                 ELSE LET data_size ==
                            u32_from_le_bytes(At(bytes, data_pos + 4), At(bytes, data_pos + 5),
                                              At(bytes, data_pos + 6), At(bytes, data_pos + 7))
                          audio_start == data_pos + 8
                          audio_end == audio_start + data_size
                      IN  IF audio_end > Len(bytes)
                          THEN Err("Donnees audio incompletes")
                          ELSE bytes_to_i16_samples(Slice(bytes, audio_start, audio_end))

(***************************************************************************)
(* impl TryFrom<&WavBinary> for AudioData                                  *)
(***************************************************************************)
AudioData_try_from(bytes) ==
    IF ~check(bytes)
    THEN Err("not a valid wav file")
    ELSE LET format == read_format_info(bytes)
         IN  IF format.kind # "Ok"
             THEN format
             ELSE LET extracted == extract_samples(bytes)
                  IN  IF extracted.kind # "Ok"
                      THEN extracted
                      ELSE OkAudioData(extracted.samples, format.channels,
                                       format.sample_rate)

(***************************************************************************)
(* impl TryFrom<&RatedAudioData> for StereoAudioPresentation.              *)
(* A point is the f32 quotient (sample as f32 + 32768.0) / 65535.0.  Both  *)
(* operands are integers an f32 holds exactly, so the point is kept as the *)
(* exact fraction num / den; the f32 division rounds that fraction to the  *)
(* nearest f32, which keeps 0/den = 0.0 and den/den = 1.0 and the order.   *)
(***************************************************************************)
normalize_off_by_one(sample) == [num |-> sample + I16Offset - 1, den |-> Divisor]

normalize(sample) == [num |-> sample + I16Offset, den |-> Divisor]

second_sample_next(a, sample_index) ==
    IF sample_index + 2 <= Len(a.samples)
    THEN a.samples[sample_index + 2]
    ELSE a.samples[sample_index + 1]

second_sample(a, sample_index) ==
    IF a.channels = 2
    THEN a.samples[sample_index + 2]
    ELSE a.samples[sample_index + 1]

loop_continues_short(frame_index, total_frames) == frame_index + 1 < total_frames

loop_continues(frame_index, total_frames) == frame_index < total_frames

RECURSIVE reduce_loop(_, _, _, _, _, _)
reduce_loop(a, samples_per_interval, total_frames, frame_index, left, right) ==
    IF loop_continues(frame_index, total_frames)
    THEN LET sample_index == frame_index * a.channels
             first_sample == a.samples[sample_index + 1]
             first_normalized == normalize(first_sample)
             second_normalized == normalize(second_sample(a, sample_index))
         IN  reduce_loop(a, samples_per_interval, total_frames,
                         frame_index + samples_per_interval,
                         Append(left, first_normalized),
                         Append(right, second_normalized))
    ELSE OkPresentation(left, right)

supported_layout_up_to_three(channels) == channels \in 1..3

supported_layout(channels) == channels = 1 \/ channels = 2

StereoAudioPresentation_try_from(a, target) ==
    IF ~supported_layout(a.channels)
    THEN Err("only mono or stereo audio is supported")
    ELSE IF target = 0
    THEN Panic("attempt to divide by zero")
    ELSE LET samples_per_interval == a.sample_rate \div target
             total_frames == Len(a.samples) \div a.channels
         IN  IF samples_per_interval = 0
             THEN Panic("attempt to divide by zero")
             ELSE reduce_loop(a, samples_per_interval, total_frames, 0, <<>>, <<>>)

(***************************************************************************)
(* load_presentation, from the bytes WavBinary::from_file has read.        *)
(***************************************************************************)
load_presentation(bytes, target) ==
    LET audiodata == AudioData_try_from(bytes)
    IN  IF audiodata.kind # "Ok"
        THEN audiodata
        ELSE StereoAudioPresentation_try_from(audiodata, target)

(***************************************************************************)
(* Inputs.  A buffer is a 12-byte envelope followed by chunks, each        *)
(* identifier ++ little-endian size ++ payload, with up to MaxCut bytes    *)
(* missing at its end (a truncated file).                                  *)
(***************************************************************************)
RECURSIVE SeqsUpTo(_, _)
SeqsUpTo(S, n) ==
    IF n = 0
    THEN {<<>>}
    ELSE LET shorter == SeqsUpTo(S, n - 1)
         IN  shorter \cup {Append(q, x) : q \in {t \in shorter : Len(t) = n - 1}, x \in S}

RECURSIVE Flatten(_)
Flatten(ss) == IF ss = <<>> THEN <<>> ELSE Head(ss) \o Flatten(Tail(ss))

Chunk(id, size, payload) == id \o u32_to_le_bytes(size) \o payload

Envelope == RIFF \o u32_to_le_bytes(36) \o WAVE

BadEnvelopes ==
    { <<82, 73, 70, 88>> \o u32_to_le_bytes(36) \o WAVE,
      RIFF \o u32_to_le_bytes(36) \o <<78, 111, 110, 101>> }

SampleVals == {-32768, 1, 32767}

FormatFields == {<<c, 2>> : c \in 0..MaxChannels} \cup {<<1, 1>>}

FmtChunk(channels, sample_rate) ==
    Chunk(FMT, 16,
          u16_to_le_bytes(1) \o u16_to_le_bytes(channels) \o u32_to_le_bytes(sample_rate)
          \o u32_to_le_bytes(sample_rate * channels * 2)
          \o u16_to_le_bytes(channels * 2) \o u16_to_le_bytes(16))

FmtChunks == {FmtChunk(f[1], f[2]) : f \in FormatFields}

Payloads ==
    LET whole == {Flatten([i \in 1..Len(q) |-> i16_to_le_bytes(q[i])]) :
                    q \in SeqsUpTo(SampleVals, MaxSamples)}
    IN  whole \cup {<<1>>, <<0, 128, 1>>}

DataChunks == {Chunk(DATA, Len(p), p) : p \in Payloads}

JunkChunks == {<<>>, Chunk(LIST, 2, <<7, 7>>), Chunk(LIST, 2130706432, <<7, 7>>)}

Bodies ==
    {j \o f : j \in JunkChunks, f \in FmtChunks \cup DataChunks \cup {<<>>}}
    \cup {j \o f \o d : j \in JunkChunks, f \in FmtChunks, d \in DataChunks}
    \cup {j \o d \o f : j \in JunkChunks, f \in FmtChunks, d \in DataChunks}

Truncations(bytes) ==
    {SubSeq(bytes, 1, Len(bytes) - cut) :
        cut \in 0..(IF MaxCut < Len(bytes) THEN MaxCut ELSE Len(bytes))}

Buffers ==
    UNION {Truncations(Envelope \o b) : b \in Bodies}
    \cup {e \o FmtChunk(2, 2) \o d : e \in BadEnvelopes, d \in DataChunks}
    \cup {<<>>, <<1, 2, 3, 4, 5, 6, 7>>}

AudioDatas ==
    {OkAudioData(s, c, r) :
        s \in SeqsUpTo(SampleVals \cup {0}, MaxLen),
        c \in (0..MaxChannels) \cup {65535},
        r \in 0..MaxSrcRate}

Rates == 0..MaxRate

(***************************************************************************)
(* Spec: one buffer, and one call of one of the crate's functions on it.   *)
(***************************************************************************)
Init ==
    /\ data \in Buffers
    /\ audio = NoResult
    /\ rate = 0
    /\ op = "none"
    /\ res = NoResult
    /\ walk = NoWalk

CallFindDataChunk ==
    /\ op = "none"
    /\ op' = "find_data_chunk"
    /\ res' = find_data_chunk(data)
    /\ UNCHANGED <<data, audio, rate, walk>>

CallReadFormatInfo ==
    /\ op = "none"
    /\ op' = "read_format_info"
    /\ res' = read_format_info(data)
    /\ UNCHANGED <<data, audio, rate, walk>>

CallExtractSamples ==
    /\ op = "none"
    /\ op' = "extract_samples"
    /\ res' = extract_samples(data)
    /\ UNCHANGED <<data, audio, rate, walk>>

CallAudioDataTryFrom ==
    /\ op = "none"
    /\ op' = "AudioData::try_from"
    /\ audio' = AudioData_try_from(data)
    /\ res' = audio'
    /\ UNCHANGED <<data, rate, walk>>

CallLoadPresentation ==
    /\ op = "none"
    /\ \E target \in Rates :
        /\ rate' = target
        /\ audio' = AudioData_try_from(data)
        /\ res' = load_presentation(data, target)
    /\ op' = "load_presentation"
    /\ UNCHANGED <<data, walk>>

Next ==
    \/ CallFindDataChunk
    \/ CallReadFormatInfo
    \/ CallExtractSamples
    \/ CallAudioDataTryFrom
    \/ CallLoadPresentation

Spec == Init /\ [][Next]_vars

(***************************************************************************)
(* ReducerSpec: one AudioData and one target rate, and the reducer applied *)
(* to them (as the crate's tests build AudioData directly).                *)
(***************************************************************************)
ReducerInit ==
    /\ data = <<>>
    /\ audio \in AudioDatas
    /\ rate \in Rates
    /\ op = "none"
    /\ res = NoResult
    /\ walk = NoWalk

CallPresentationTryFrom ==
    /\ op = "none"
    /\ audio.kind = "Ok"
    /\ op' = "StereoAudioPresentation::try_from"
    /\ res' = StereoAudioPresentation_try_from(audio, rate)
    /\ UNCHANGED <<data, audio, rate, walk>>

ReducerNext == CallPresentationTryFrom

ReducerSpec == ReducerInit /\ [][ReducerNext]_vars

(***************************************************************************)
(* WalkSpec: the two chunk walks followed one loop iteration at a time.    *)
(* A step is one evaluation of the while condition and, when it holds, one *)
(* pass through the loop body (audio_data.rs:36-48 and 54-77).  The walk   *)
(* runs to its return without interruption, hence the weak fairness of     *)
(* the steps.                                                              *)
(***************************************************************************)
ZeroSizeChunk == Chunk(LIST, 0, <<>>)

WalkBuffers ==
    Buffers
    \cup UNION {Truncations(Envelope \o ZeroSizeChunk \o ZeroSizeChunk \o b) :
                  b \in {FmtChunk(2, 2) \o Chunk(DATA, 4, <<0, 128, 255, 127>>),
                         Chunk(DATA, 2, <<1, 0>>) \o FmtChunk(1, 2),
                         <<>>}}

next_pos_without_header(pos, chunk_size) == pos + chunk_size

next_pos(pos, chunk_size) == pos + HeaderLen + chunk_size

WalkInit ==
    /\ data \in WalkBuffers
    /\ audio = NoResult
    /\ rate = 0
    /\ op = "none"
    /\ res = NoResult
    /\ walk = NoWalk

StartFindDataChunk ==
    /\ op = "none"
    /\ op' = "find_data_chunk"
    /\ walk' = [pc |-> "loop", pos |-> ChunkStart, reads |-> 0, visited |-> <<>>]
    /\ UNCHANGED <<data, audio, rate, res>>

StartReadFormatInfo ==
    /\ op = "none"
    /\ op' = "read_format_info"
    /\ walk' = [pc |-> "loop", pos |-> ChunkStart, reads |-> 0, visited |-> <<>>]
    /\ UNCHANGED <<data, audio, rate, res>>

StepFindDataChunk ==
    /\ op = "find_data_chunk"
    /\ walk.pc = "loop"
    /\ LET pos == walk.pos
       IN  IF pos + HeaderLen <= Len(data)
           THEN LET chunk_id == Slice(data, pos, pos + 4)
                    chunk_size == u32_from_le_bytes(At(data, pos + 4), At(data, pos + 5),
                                                    At(data, pos + 6), At(data, pos + 7))
                    read == [walk EXCEPT !.reads = @ + 1, !.visited = Append(@, pos)]
                IN  IF chunk_id = DATA
                    THEN /\ res' = SomePos(pos)
                         /\ walk' = [read EXCEPT !.pc = "done"]
                    ELSE /\ res' = res
                         /\ walk' = [read EXCEPT !.pos = next_pos(pos, chunk_size)]
           ELSE /\ res' = NoResult
                /\ walk' = [walk EXCEPT !.pc = "done"]
    /\ UNCHANGED <<data, audio, rate, op>>

StepReadFormatInfo ==
    /\ op = "read_format_info"
    /\ walk.pc = "loop"
    /\ LET pos == walk.pos
       IN  IF pos + HeaderLen < Len(data)
           THEN LET chunk_id == Slice(data, pos, pos + 4)
                    read == [walk EXCEPT !.reads = @ + 1, !.visited = Append(@, pos)]
                IN  IF chunk_id = FMT
                    THEN /\ res' = IF pos + 15 >= Len(data)
                                   THEN Panic("index out of bounds")
                                   ELSE OkFormat(
                                          u16_from_le_bytes(At(data, pos + 10),
                                                            At(data, pos + 11)),
                                          u32_from_le_bytes(At(data, pos + 12),
                                                            At(data, pos + 13),
                                                            At(data, pos + 14),
                                                            At(data, pos + 15)))
                         /\ walk' = [read EXCEPT !.pc = "done"]
                    ELSE LET chunk_size ==
                               u32_from_le_bytes(At(data, pos + 4), At(data, pos + 5),
                                                 At(data, pos + 6), At(data, pos + 7))
                         IN  /\ res' = res
                             /\ walk' = [read EXCEPT !.pos = next_pos(pos, chunk_size)]
           ELSE /\ res' = Err("no chunk format found")
                /\ walk' = [walk EXCEPT !.pc = "done"]
    /\ UNCHANGED <<data, audio, rate, op>>

WalkStep == StepFindDataChunk \/ StepReadFormatInfo

WalkNext ==
    \/ StartFindDataChunk
    \/ StartReadFormatInfo
    \/ StepFindDataChunk
    \/ StepReadFormatInfo

WalkSpec == WalkInit /\ [][WalkNext]_vars /\ WF_vars(WalkStep)

(***************************************************************************)
(* The chunk list of a buffer, as the properties below speak of it: the    *)
(* header offsets 12, 12 + 8 + size_1, ... at which a whole 8-byte header  *)
(* lies inside the buffer.                                                 *)
(***************************************************************************)
ChunkId(bytes, p) == SubSeq(bytes, p + 1, p + 4)

ChunkSize(bytes, p) ==
    bytes[p + 5] + 256 * bytes[p + 6] + 65536 * bytes[p + 7] + 16777216 * bytes[p + 8]

RECURSIVE ChunkOffsets(_, _)
ChunkOffsets(bytes, p) ==
    IF p + 8 <= Len(bytes)
    THEN {p} \cup ChunkOffsets(bytes, p + 8 + ChunkSize(bytes, p))
    ELSE {}

Headers(bytes, id) == {p \in ChunkOffsets(bytes, 12) : ChunkId(bytes, p) = id}

FirstHeader(bytes, id) ==
    CHOOSE p \in Headers(bytes, id) : \A q \in Headers(bytes, id) : p <= q

EnvelopeOk(bytes) ==
    /\ Len(bytes) >= 12
    /\ SubSeq(bytes, 1, 4) = RIFF
    /\ SubSeq(bytes, 9, 12) = WAVE

FormatHeaders(bytes) == {p \in Headers(bytes, FMT) : p + 8 < Len(bytes)}

FormatOk(bytes) ==
    /\ FormatHeaders(bytes) # {}
    /\ \A p \in FormatHeaders(bytes) :
          (\A q \in FormatHeaders(bytes) : p <= q) => p + 16 <= Len(bytes)

FormatChannels(bytes) ==
    LET p == CHOOSE x \in FormatHeaders(bytes) : \A q \in FormatHeaders(bytes) : x <= q
    IN  bytes[p + 11] + 256 * bytes[p + 12]

FirstViolation(bytes) ==
    IF ~EnvelopeOk(bytes) THEN "not a valid wav file"
    ELSE IF ~FormatOk(bytes) THEN "no chunk format found"
    ELSE IF Headers(bytes, DATA) = {} THEN "no data chunk found"
    ELSE LET p == FirstHeader(bytes, DATA)
         IN  IF p + 8 + ChunkSize(bytes, p) > Len(bytes) THEN "Donnees audio incompletes"
             ELSE IF ChunkSize(bytes, p) % 2 = 1 THEN "invalid binary data"
             ELSE IF FormatChannels(bytes) \notin {1, 2}
             THEN "only mono or stereo audio is supported"
             ELSE "no precondition violated"

(***************************************************************************)
(* C1: whenever the pipeline (AudioData::try_from, then the reducer) does  *)
(* not produce a presentation, the caller gets one error value, and it is  *)
(* the error of the first violated precondition in the order RIFF          *)
(* envelope, format chunk, data chunk (missing, incomplete), sample        *)
(* parity, channel layout.                                                 *)
(***************************************************************************)
C1_FirstViolatedPrecondition ==
    (op = "load_presentation" /\ res.kind # "Ok")
        => res = Err(FirstViolation(data))

(* C1, the part the code keeps: every error VALUE the pipeline returns is  *)
(* the one of the first violated precondition.                             *)
C1_ErrorValuesFollowOrder ==
    (op = "load_presentation" /\ res.kind = "Err")
        => res = Err(FirstViolation(data))

(***************************************************************************)
(* C2: on a buffer that passes the RIFF/WAVE check and whose data chunk    *)
(* declares an even size S with the payload inside the buffer,             *)
(* extract_samples returns S/2 samples, and sample i is the signed 16-bit  *)
(* little-endian reading of payload bytes 2i, 2i+1 (encoding sample i      *)
(* gives those two bytes back).                                            *)
(***************************************************************************)
WellFormedData(bytes) ==
    /\ EnvelopeOk(bytes)
    /\ Headers(bytes, DATA) # {}
    /\ LET p == FirstHeader(bytes, DATA)
       IN  /\ ChunkSize(bytes, p) % 2 = 0
           /\ p + 8 + ChunkSize(bytes, p) <= Len(bytes)

C2_SamplesDecoded ==
    (op = "extract_samples" /\ WellFormedData(data)) =>
        LET p == FirstHeader(data, DATA)
            S == ChunkSize(data, p)
        IN  /\ res.kind = "Ok"
            /\ Len(res.samples) = S \div 2
            /\ \A i \in 0..(S \div 2 - 1) :
                  /\ res.samples[i + 1] \in -32768..32767
                  /\ i16_to_le_bytes(res.samples[i + 1])
                        = <<data[p + 8 + 2 * i + 1], data[p + 8 + 2 * i + 2]>>

C2_Witness ==
    /\ op = "extract_samples"
    /\ WellFormedData(data)
    /\ res.kind = "Ok"
    /\ res.samples = <<-32768, 32767>>

(***************************************************************************)
(* C6: every AudioData that AudioData::try_from returns holds whole        *)
(* frames: samples.length % channels = 0.                                  *)
(***************************************************************************)
C6_WholeFrames ==
    (op = "AudioData::try_from" /\ res.kind = "Ok" /\ res.channels > 0)
        => Len(res.samples) % res.channels = 0

(***************************************************************************)
(* C8: on every buffer AudioData::try_from returns an AudioData or an      *)
(* error value; it never aborts on an index at or past the buffer's end.   *)
(***************************************************************************)
C8_NoAbort ==
    op = "AudioData::try_from" => res.kind \in {"Ok", "Err"}

(***************************************************************************)
(* C10: a "data" header that ends exactly at the buffer's end is found by  *)
(* find_data_chunk (and extract_samples then decodes zero samples when it  *)
(* declares size 0), while a "fmt " header that ends exactly at the        *)
(* buffer's end is reported by read_format_info as a missing format chunk. *)
(***************************************************************************)
EndsAtBoundary(bytes, id) ==
    /\ Headers(bytes, id) # {}
    /\ FirstHeader(bytes, id) + 8 = Len(bytes)

C10_BoundaryPolicies ==
    /\ (op = "find_data_chunk" /\ EndsAtBoundary(data, DATA))
          => res = SomePos(Len(data) - 8)
    /\ (op = "find_data_chunk" /\ Headers(data, DATA) # {})
          => res = SomePos(FirstHeader(data, DATA))
    /\ (op = "extract_samples" /\ EndsAtBoundary(data, DATA)
            /\ ChunkSize(data, Len(data) - 8) = 0)
          => res = OkSamples(<<>>)
    /\ (op = "read_format_info" /\ EndsAtBoundary(data, FMT))
          => res = Err("no chunk format found")
    /\ (op = "read_format_info" /\ res.kind # "Err")
          => FormatHeaders(data) # {}

C10_Witness ==
    /\ op = "read_format_info"
    /\ EndsAtBoundary(data, FMT)
    /\ Len(data) > 20
    /\ res = Err("no chunk format found")

C10_DataWitness ==
    /\ op = "extract_samples"
    /\ EndsAtBoundary(data, DATA)
    /\ Len(data) > 20
    /\ res = OkSamples(<<>>)

(***************************************************************************)
(* Properties of the reducer (ReducerSpec).                                *)
(***************************************************************************)
Reduced == op = "StereoAudioPresentation::try_from"

Supported == audio.channels \in {1, 2}

ZeroInterval == rate = 0 \/ rate > audio.sample_rate

Interval == audio.sample_rate \div rate

TotalFrames == Len(audio.samples) \div audio.channels

CeilDiv(t, i) == CHOOSE n \in 0..t : n * i >= t /\ (n = 0 \/ (n - 1) * i < t)

(***************************************************************************)
(* C3: given mono or stereo AudioData and a target rate that is zero or    *)
(* exceeds the source rate, the reducer returns an error value instead of  *)
(* dividing by zero.                                                       *)
(***************************************************************************)
C3_ZeroIntervalGuarded ==
    (Reduced /\ Supported /\ ZeroInterval) => res.kind = "Err"

(***************************************************************************)
(* C4: with channels in {1,2}, T = samples.length / channels and           *)
(* I = source_rate / target_rate >= 1, the reducer succeeds and each       *)
(* output sequence has exactly ceil(T / I) points.                         *)
(***************************************************************************)
C4_PointCount ==
    (Reduced /\ Supported /\ ~ZeroInterval) =>
        /\ res.kind = "Ok"
        /\ Len(res.left) = CeilDiv(TotalFrames, Interval)
        /\ Len(res.right) = CeilDiv(TotalFrames, Interval)

C4_Witness ==
    /\ Reduced /\ Supported /\ ~ZeroInterval
    /\ audio.channels = 1
    /\ Interval = 2
    /\ TotalFrames = 3
    /\ Len(res.left) = 2
    /\ Len(res.right) = 2

(***************************************************************************)
(* C5: a channel count outside {1,2} always gives the unsupported-layout   *)
(* error, whatever the samples, the source rate and the target rate.       *)
(***************************************************************************)
C5_UnsupportedLayout ==
    (Reduced /\ ~Supported) => res = Err("only mono or stereo audio is supported")

C5_Witness ==
    /\ Reduced
    /\ audio.channels = 0
    /\ audio.samples = <<>>
    /\ rate = 0
    /\ res = Err("only mono or stereo audio is supported")

(***************************************************************************)
(* C7 as stated: every point is (value + 32768) / 65535 and lies in the    *)
(* half-open range [0, 1), numerator strictly below the denominator.       *)
(***************************************************************************)
Points == {res.left[k] : k \in 1..Len(res.left)} \cup {res.right[k] : k \in 1..Len(res.right)}

C7_HalfOpenRange ==
    (Reduced /\ res.kind = "Ok") =>
        \A pt \in Points : pt.den = 65535 /\ 0 <= pt.num /\ pt.num < pt.den

(***************************************************************************)
(* C7 amended: every point is (value + 32768) / 65535 for a sample value   *)
(* of the input and lies in the closed range [0, 1]; it is 0 exactly for   *)
(* sample -32768 and 1 exactly for sample 32767.                           *)
(***************************************************************************)
C7_ClosedRange ==
    (Reduced /\ res.kind = "Ok") =>
        \A pt \in Points :
            /\ pt.den = 65535
            /\ 0 <= pt.num /\ pt.num <= pt.den
            /\ \E i \in 1..Len(audio.samples) :
                  /\ pt.num = audio.samples[i] + 32768
                  /\ (pt.num = 0 <=> audio.samples[i] = -32768)
                  /\ (pt.num = pt.den <=> audio.samples[i] = 32767)

C7_Witness ==
    /\ Reduced /\ res.kind = "Ok"
    /\ audio.samples = <<32767, -32768>>
    /\ audio.channels = 2
    /\ res.left = <<[num |-> 65535, den |-> 65535]>>
    /\ res.right = <<[num |-> 0, den |-> 65535]>>

(***************************************************************************)
(* C9: for mono input on which the reducer succeeds, left and right have   *)
(* the same length and right[k] = left[k], both the point of               *)
(* samples[k * samples_per_interval].                                      *)
(***************************************************************************)
C9_MonoDuplicates ==
    (Reduced /\ audio.channels = 1 /\ res.kind = "Ok") =>
        /\ Len(res.right) = Len(res.left)
        /\ \A k \in 0..(Len(res.left) - 1) :
              /\ res.right[k + 1] = res.left[k + 1]
              /\ res.left[k + 1].num = audio.samples[k * Interval + 1] + 32768

C9_Witness ==
    /\ Reduced /\ audio.channels = 1 /\ res.kind = "Ok"
    /\ Interval = 2
    /\ audio.samples = <<1, 0, 32767, -32768>>
    /\ Len(res.left) = 2
    /\ res.right = res.left

(***************************************************************************)
(* C11: both chunk walks terminate on every finite buffer whatever sizes   *)
(* its chunks declare.  The offset starts at 12 and grows by 8 + declared  *)
(* size, so by at least 8, on every non-matching step; the walk returns    *)
(* after at most (length - 12) / 8 + 1 header reads (none on a buffer      *)
(* shorter than 12 bytes); it reads headers only at offsets of the chain   *)
(* 12, 12 + 8 + size_1, ..., in that order, and returns the first one      *)
(* whose identifier matches, or not-found when none does.                  *)
(***************************************************************************)
Walking == walk.pc # "idle"

WalkBound ==
    IF Len(data) >= 12 THEN (Len(data) - 12) \div 8 + 1 ELSE 0

WalkTarget == IF op = "find_data_chunk" THEN Headers(data, DATA) ELSE FormatHeaders(data)

WalkVisits ==
    Walking =>
        /\ walk.reads = Len(walk.visited)
        /\ walk.reads <= WalkBound
        /\ \A k \in 1..Len(walk.visited) :
              /\ walk.visited[k] \in ChunkOffsets(data, 12)
              /\ k = 1 => walk.visited[k] = 12
              /\ k > 1 => walk.visited[k] = walk.visited[k - 1] + 8
                                              + ChunkSize(data, walk.visited[k - 1])

WalkReturns ==
    (Walking /\ walk.pc = "done") =>
        IF WalkTarget = {}
        THEN res.kind \in {"None", "Err"}
        ELSE /\ res.kind \in {"Some", "Ok", "Panic"}
             /\ walk.visited[Len(walk.visited)] \in WalkTarget
             /\ \A q \in WalkTarget : walk.visited[Len(walk.visited)] <= q
             /\ op = "find_data_chunk" => res = find_data_chunk(data)
             /\ op = "read_format_info" => res = read_format_info(data)

WalkAdvances ==
    (walk.pc = "loop" /\ walk'.pc = "loop") =>
        /\ walk'.pos = walk.pos + 8 + ChunkSize(data, walk.pos)
        /\ walk'.pos >= walk.pos + 8
        /\ walk'.reads = walk.reads + 1

C11_WalksTerminate ==
    /\ [](WalkVisits /\ WalkReturns)
    /\ [][WalkAdvances]_vars
    /\ (walk.pc = "loop") ~> (walk.pc = "done")

C11_Witness ==
    /\ op = "find_data_chunk"
    /\ walk.pc = "done"
    /\ walk.visited = <<12, 20, 28, 52>>
    /\ res = SomePos(52)

C11_FarSizeWitness ==
    /\ op = "read_format_info"
    /\ walk.pc = "done"
    /\ walk.reads = 1
    /\ walk.pos > 2130706432
    /\ res = Err("no chunk format found")

====
